---- MODULE Spec2Model ----
(***************************************************************************)
(* A model of pdapt_lib/machine_learning/nlp.py: the text normalisation    *)
(* pipeline, the stemmer, the token-set merge, the n-gram / skip-gram      *)
(* generators, the bigram predictor and the co-occurrence counter.         *)
(*                                                                         *)
(* The library is a set of pure functions.  A text is a sequence of        *)
(* one-character strings, a Python list is a sequence, a Python dict is a  *)
(* sequence of [k, v] records in insertion order with distinct keys.  A    *)
(* call is modelled as: the caller holds the arguments (args), the         *)
(* function runs (one action per function) and leaves its outcome in ret:  *)
(* [ok |-> TRUE, val |-> v] for a returned value, [ok |-> FALSE,           *)
(* err |-> e] for a raised exception.                                      *)
(***************************************************************************)
EXTENDS Integers, Sequences, FiniteSets, TLC

VARIABLES pc, args, ret

vars == <<pc, args, ret>>

(***************************************************************************)
(* Bounds of the explored inputs.                                          *)
(***************************************************************************)
MaxTextLen == 4
MaxWords == 7
MaxN == 4
MaxK == 1
MaxSentLen == 3
MaxWindow == 3
MaxCount == 2
MaxPieces == 3
MaxNormWords == 4
MaxTokWords == 3
MaxDocLen == 2
MaxDocs == 2
MaxRun == 4
MaxContractionWords == 3

(***************************************************************************)
(* Python primitives.                                                      *)
(***************************************************************************)
Max(a, b) == IF a >= b THEN a ELSE b
Min(a, b) == IF a <= b THEN a ELSE b

Returned(v) == [ok |-> TRUE, val |-> v]
Raised(e) == [ok |-> FALSE, err |-> e]
NoRet == [ok |-> FALSE, err |-> "pending"]

\* All sequences over S of length 0..n.
SeqsUpTo(S, n) == UNION {[1..m -> S] : m \in 0..n}

\* list[lo:hi] with Python's rules: a negative bound counts from the end,
\* then both bounds are clipped to 0..len.  Bounds are 0-based.
PyIndex(len, x) == IF x < 0 THEN Max(len + x, 0) ELSE Min(x, len)
PySlice(s, lo, hi) == SubSeq(s, PyIndex(Len(s), lo) + 1, PyIndex(Len(s), hi))

\* range(start, stop, step) for step > 0, as a sequence.
PyRange(start, stop, step) ==
  IF stop <= start THEN <<>>
  ELSE [t \in 1..(((stop - start - 1) \div step) + 1) |-> start + (t - 1) * step]

\* list.count(x)
PyCount(s, x) == Cardinality({p \in 1..Len(s) : s[p] = x})

\* str.split(" "): the fields between single spaces, empty fields kept.
RECURSIVE SplitAcc(_, _, _)
SplitAcc(s, cur, acc) ==
  IF s = <<>> THEN Append(acc, cur)
  ELSE IF Head(s) = " " THEN SplitAcc(Tail(s), <<>>, Append(acc, cur))
  ELSE SplitAcc(Tail(s), Append(cur, Head(s)), acc)

split(s) == SplitAcc(s, <<>>, <<>>)

\* " ".join(words)
RECURSIVE join(_)
join(words) ==
  IF words = <<>> THEN <<>>
  ELSE IF Len(words) = 1 THEN words[1]
  ELSE words[1] \o <<" ">> \o join(Tail(words))

(***************************************************************************)
(* Models: n_gram, skip_gram                                               *)
(***************************************************************************)
n_gram_short(n, s) ==
  LET words == split(s)
      ngrams == [t \in 1..Max(Len(words) - n, 0) |-> PySlice(words, t - 1, t - 1 + n)]
  IN  Returned([t \in 1..Len(ngrams) |-> join(ngrams[t])])

n_gram(n, s) ==
  LET words == split(s)
      ngrams == [t \in 1..Max(Len(words) - (n - 1), 0) |-> PySlice(words, t - 1, t - 1 + n)]
  IN  Returned([t \in 1..Len(ngrams) |-> join(ngrams[t])])

\* The index list of one skip gram: i, then i+k+j for j in range(1, n+k, k+1).
skip_gram_indices(k, n, i) ==
  LET js == PyRange(1, n + k, k + 1)
  IN  <<i>> \o [t \in 1..Len(js) |-> i + k + js[t]]

skip_gram(k, n, s) ==
  LET words == split(s)
      count == Max(Len(words) - ((1 + k) * (n - 1)), 0)
      idx   == [t \in 1..count |-> skip_gram_indices(k, n, t - 1)]
  IN  IF \E t \in 1..count : \E u \in 1..Len(idx[t]) : idx[t][u] >= Len(words)
      THEN Raised("IndexError")
      ELSE Returned([t \in 1..count |->
                       join([u \in 1..Len(idx[t]) |-> words[idx[t][u] + 1]])])

(***************************************************************************)
(* Specification of the n-gram models: a text, n and k are chosen, then    *)
(* n_gram or skip_gram is called on them.                                  *)
(***************************************************************************)
GramChars == {"a", "b", " "}
GramWords == {<<"a">>, <<"b">>}
GramTexts ==
  SeqsUpTo(GramChars, MaxTextLen) \cup {join(ws) : ws \in SeqsUpTo(GramWords, MaxWords)}

InitGram ==
  /\ pc = "call"
  /\ args \in [s : GramTexts, n : 1..MaxN, k : 0..MaxK]
  /\ ret = NoRet

CallNGram ==
  /\ pc = "call"
  /\ ret' = n_gram(args.n, args.s)
  /\ pc' = "n_gram"
  /\ UNCHANGED args

CallSkipGram ==
  /\ pc = "call"
  /\ ret' = skip_gram(args.k, args.n, args.s)
  /\ pc' = "skip_gram"
  /\ UNCHANGED args

NextGram == CallNGram \/ CallSkipGram

SpecGram == InitGram /\ [][NextGram]_vars

(***************************************************************************)
(* The fields of a text, located in the text itself: field j runs from     *)
(* just after the (j-1)-th space to just before the j-th space.            *)
(***************************************************************************)
SpacesUpTo(s, p) == Cardinality({q \in 1..p : s[q] = " "})
FieldCount(s) == SpacesUpTo(s, Len(s)) + 1
NthSpace(s, j) == CHOOSE p \in 1..Len(s) : s[p] = " " /\ SpacesUpTo(s, p) = j
FieldStart(s, j) == IF j = 1 THEN 1 ELSE NthSpace(s, j - 1) + 1
FieldEnd(s, j) == IF j = FieldCount(s) THEN Len(s) ELSE NthSpace(s, j) - 1
Field(s, j) == SubSeq(s, FieldStart(s, j), FieldEnd(s, j))

\* C3: skip_gram(k, n, text) returns one string for every start index i with
\* i + (n-1)*(k+1) < L, in increasing order of i, and the string of start i
\* is the n words word[i + t*(k+1)], t = 0..n-1, joined by single spaces.
C3_SkipGramContract ==
  pc = "skip_gram" =>
    LET s == args.s
        n == args.n
        k == args.k
        L == FieldCount(s)
        starts == {i \in 0..(L - 1) : i + (n - 1) * (k + 1) < L}
    IN  /\ ret.ok
        /\ Len(ret.val) = Cardinality(starts)
        /\ \A i \in starts :
             ret.val[i + 1] = join([t \in 1..n |-> Field(s, i + (t - 1) * (k + 1) + 1)])

\* C4: n_gram(n, text) returns exactly max(0, L - n + 1) strings, L the number
\* of fields of the text split on single spaces, and the i-th string is the
\* stretch of the text from the start of field i to the end of field i+n-1
\* (its n words joined by single spaces), in left-to-right order.
C4_NGramContract ==
  pc = "n_gram" =>
    LET s == args.s
        n == args.n
        L == FieldCount(s)
    IN  /\ ret.ok
        /\ Len(ret.val) = Max(0, L - n + 1)
        /\ \A i \in 1..Len(ret.val) :
             ret.val[i] = SubSeq(s, FieldStart(s, i), FieldEnd(s, i + n - 1))

\* C4, witness: n_gram has produced three bigrams from a text that has an
\* empty field.
C4_Witness ==
  /\ pc = "n_gram"
  /\ args.n = 2
  /\ Len(ret.val) = 3
  /\ \E j \in 1..FieldCount(args.s) : Field(args.s, j) = <<>>

(***************************************************************************)
(* Co-occurrence: tokens, get_cooccurance_count, build_cooccurance_matrix  *)
(***************************************************************************)
\* The vocabulary of a list of sentences, in order of first appearance.
RECURSIVE tokens_words(_, _)
tokens_words(ws, t) ==
  IF ws = <<>> THEN t
  ELSE tokens_words(Tail(ws),
                    IF \E p \in 1..Len(t) : t[p] = Head(ws) THEN t ELSE Append(t, Head(ws)))

RECURSIVE tokens_acc(_, _)
tokens_acc(sentences, t) ==
  IF sentences = <<>> THEN t
  ELSE tokens_acc(Tail(sentences), tokens_words(Head(sentences), t))

tokens(sentences) == tokens_acc(sentences, <<>>)

\* The words examined around the target at 0-based position i of sentence s:
\* s[i-window:i] + s[i+1:i+1+window], with Python's slicing (a negative
\* i-window counts from the end of the sentence).
cooccurance_window(window, s, i) ==
  PySlice(s, i - window, i) \o PySlice(s, i + 1, i + 1 + window)

\* sum(window.count(neighbor) for i, w in enumerate(s) if w == target)
RECURSIVE cooccurance_in_sentence(_, _, _, _, _)
cooccurance_in_sentence(window, target, neighbor, s, i) ==
  IF i >= Len(s) THEN 0
  ELSE (IF s[i + 1] = target
        THEN PyCount(cooccurance_window(window, s, i), neighbor)
        ELSE 0)
       + cooccurance_in_sentence(window, target, neighbor, s, i + 1)

RECURSIVE get_cooccurance_count(_, _, _, _)
get_cooccurance_count(window, target, neighbor, sentences) ==
  IF sentences = <<>> THEN 0
  ELSE cooccurance_in_sentence(window, target, neighbor, Head(sentences), 0)
       + get_cooccurance_count(window, target, neighbor, Tail(sentences))

\* The module uses the global name np without importing it: the call raises
\* NameError unless the caller's environment has bound np (to numpy) in the
\* module; np_bound says which.
build_cooccurance_matrix(np_bound, window, toks, sentences) ==
  IF ~np_bound THEN Raised("NameError")
  ELSE Returned([i \in 1..Len(toks) |-> [j \in 1..Len(toks) |->
                  get_cooccurance_count(window, toks[i], toks[j], sentences)]])

CoocWords == {"a", "b"}
CoocSentences == SeqsUpTo(CoocWords, MaxSentLen)
\* No sentence, one sentence or two sentences.
CoocCorpora ==
  {<<>>} \cup {<<x>> : x \in CoocSentences}
         \cup {<<x, y>> : x \in CoocSentences, y \in CoocSentences}
\* Vocabularies: sequences of distinct words.
CoocVocabularies ==
  {v \in SeqsUpTo(CoocWords, Cardinality(CoocWords)) :
     \A p, q \in 1..Len(v) : p # q => v[p] # v[q]}

InitCooc ==
  /\ pc = "call"
  /\ args \in [window : 1..MaxWindow, target : CoocWords, neighbor : CoocWords,
               tokens : CoocVocabularies, np_bound : BOOLEAN,
               sentences : CoocCorpora]
  /\ ret = NoRet

CallTokens ==
  /\ pc = "call"
  /\ ret' = Returned(tokens(args.sentences))
  /\ pc' = "tokens"
  /\ UNCHANGED args

CallGetCooccuranceCount ==
  /\ pc = "call"
  /\ ret' = Returned(get_cooccurance_count(args.window, args.target, args.neighbor,
                                           args.sentences))
  /\ pc' = "get_cooccurance_count"
  /\ UNCHANGED args

CallBuildCooccuranceMatrix ==
  /\ pc = "call"
  /\ ret' = build_cooccurance_matrix(args.np_bound, args.window, args.tokens,
                                     args.sentences)
  /\ pc' = "build_cooccurance_matrix"
  /\ UNCHANGED args

NextCooc == CallTokens \/ CallGetCooccuranceCount \/ CallBuildCooccuranceMatrix

SpecCooc == InitCooc /\ [][NextCooc]_vars

\* C1: the co-occurrence count is symmetric in its two words for every window,
\* get_cooccurance_count(w, a, b, S) = get_cooccurance_count(w, b, a, S), so a
\* matrix that build_cooccurance_matrix produces has m[i][j] = m[j][i].
C1_CooccuranceSymmetric ==
  /\ pc = "get_cooccurance_count" =>
       ret.val = get_cooccurance_count(args.window, args.neighbor, args.target,
                                       args.sentences)
  /\ (pc = "build_cooccurance_matrix" /\ ret.ok) =>
       \A i, j \in 1..Len(args.tokens) : ret.val[i][j] = ret.val[j][i]

\* C2: get_cooccurance_count returns the number of triples (sentence s,
\* position i, position j) with s[i] = target, s[j] = neighbor, j # i and
\* max(0, i - window) <= j <= min(len(s) - 1, i + window): the window is
\* clipped at both edges of the sentence.
ClippedWindowTriples(window, target, neighbor, sentences) ==
  {<<x, i, j>> \in (1..Len(sentences)) \X (0..(MaxSentLen + 1)) \X (0..(MaxSentLen + 1)) :
     LET s == sentences[x]
     IN  /\ i < Len(s)
         /\ j < Len(s)
         /\ s[i + 1] = target
         /\ s[j + 1] = neighbor
         /\ j # i
         /\ Max(0, i - window) <= j
         /\ j <= Min(Len(s) - 1, i + window)}

C2_ClippedWindowCount ==
  pc = "get_cooccurance_count" =>
    ret.val = Cardinality(ClippedWindowTriples(args.window, args.target, args.neighbor,
                                               args.sentences))

(***************************************************************************)
(* Python dicts: [k, v] records in insertion order, keys distinct.         *)
(***************************************************************************)
DictKeys(d) == {d[p].k : p \in 1..Len(d)}
DictHas(d, k) == \E p \in 1..Len(d) : d[p].k = k
DictGet(d, k) == d[CHOOSE p \in 1..Len(d) : d[p].k = k].v
\* d[k] = v: a present key keeps its place, a new key goes last.
DictSet(d, k, v) ==
  IF DictHas(d, k)
  THEN [p \in 1..Len(d) |-> IF d[p].k = k THEN [k |-> k, v |-> v] ELSE d[p]]
  ELSE Append(d, [k |-> k, v |-> v])
\* Equality of dicts ignores the insertion order.
DictEq(d, e) ==
  /\ DictKeys(d) = DictKeys(e)
  /\ \A k \in DictKeys(d) : DictGet(d, k) = DictGet(e, k)
IsDict(d) == \A p, q \in 1..Len(d) : p # q => d[p].k # d[q].k

(***************************************************************************)
(* merge_tokens                                                            *)
(***************************************************************************)
\* for k, v in items: new[k] = other[k] + v if k in other else v
RECURSIVE merge_loop(_, _, _)
merge_loop(items, other, new_tokens) ==
  IF items = <<>> THEN new_tokens
  ELSE LET k == Head(items).k
           v == Head(items).v
       IN  merge_loop(Tail(items), other,
                      DictSet(new_tokens, k,
                              IF DictHas(other, k) THEN DictGet(other, k) + v ELSE v))

\* A merge whose second loop never runs: the keys of b alone are lost.
merge_tokens_first_loop_only(a, b) == merge_loop(a, b, <<>>)

\* A merge whose second loop stores b's count without adding a's.
RECURSIVE merge_loop_overwrite(_, _)
merge_loop_overwrite(items, new_tokens) ==
  IF items = <<>> THEN new_tokens
  ELSE merge_loop_overwrite(Tail(items),
                            DictSet(new_tokens, Head(items).k, Head(items).v))

merge_tokens_overwrite(a, b) == merge_loop_overwrite(b, merge_loop(a, b, <<>>))

merge_tokens(a, b) == merge_loop(b, a, merge_loop(a, b, <<>>))

\* Token keys are texts; token sets hold counts 1..MaxCount.
MergeKeys == {<<"a">>, <<"a", " ", "b">>}
TokenSets(keys) ==
  {d \in SeqsUpTo([k : keys, v : 1..MaxCount], Cardinality(keys)) : IsDict(d)}

InitMerge ==
  /\ pc = "call"
  /\ args \in [a : TokenSets(MergeKeys), b : TokenSets(MergeKeys), c : TokenSets(MergeKeys)]
  /\ ret = NoRet

CallMergeTokens ==
  /\ pc = "call"
  /\ ret' = Returned(merge_tokens(args.a, args.b))
  /\ pc' = "merge_tokens"
  /\ UNCHANGED args

NextMerge == CallMergeTokens

SpecMerge == InitMerge /\ [][NextMerge]_vars

\* The count of a key in a token set, 0 for an absent key.
CountIn(d, k) == IF DictHas(d, k) THEN DictGet(d, k) ELSE 0
RECURSIVE SumValues(_)
SumValues(d) == IF d = <<>> THEN 0 ELSE Head(d).v + SumValues(Tail(d))

\* C7: merge_tokens(a, b) is a mapping whose key set is exactly the union of
\* the keys of a and b and whose value at every key is a's count plus b's
\* count, 0 standing for an absent key.
C7_MergeIsKeywiseSum ==
  pc = "merge_tokens" =>
    /\ IsDict(ret.val)
    /\ DictKeys(ret.val) = DictKeys(args.a) \cup DictKeys(args.b)
    /\ \A k \in DictKeys(ret.val) :
         DictGet(ret.val, k) = CountIn(args.a, k) + CountIn(args.b, k)

\* C7, witness: two token sets that share a key, one of them holding a key
\* the other lacks, were merged.
C7_Witness ==
  /\ pc = "merge_tokens"
  /\ DictKeys(args.a) \cap DictKeys(args.b) # {}
  /\ DictKeys(args.a) # DictKeys(args.b)
  /\ Len(ret.val) = 2

\* C8: merging is commutative, merge_tokens(a, b) = merge_tokens(b, a), and
\* associative, merge_tokens(merge_tokens(a, b), c) = merge_tokens(a,
\* merge_tokens(b, c)), as dict equality, and it preserves the total count:
\* the values of merge_tokens(a, b) sum to sum(a) + sum(b).
C8_MergeOrderIndependent ==
  pc = "merge_tokens" =>
    /\ DictEq(ret.val, merge_tokens(args.b, args.a))
    /\ DictEq(merge_tokens(ret.val, args.c),
              merge_tokens(args.a, merge_tokens(args.b, args.c)))
    /\ SumValues(ret.val) = SumValues(args.a) + SumValues(args.b)

\* C8, witness: token sets holding the same keys in different insertion
\* orders were merged, and the two merge orders give differently ordered dicts.
C8_Witness ==
  /\ pc = "merge_tokens"
  /\ Len(args.a) = 2 /\ Len(args.b) = 2 /\ Len(args.c) >= 1
  /\ args.a[1].k # args.b[1].k
  /\ ret.val # merge_tokens(args.b, args.a)

(***************************************************************************)
(* bigram_predict                                                          *)
(***************************************************************************)
\* sorted(..., key=lambda x: x[1]): ascending counts, the sign of the key lost.
RECURSIVE sorted_ascending(_)
sorted_ascending(items) ==
  IF items = <<>> THEN <<>>
  ELSE LET x == items[Len(items)]
           r == sorted_ascending(SubSeq(items, 1, Len(items) - 1))
           before == Cardinality({p \in 1..Len(r) : r[p].v <= x.v})
       IN  SubSeq(r, 1, before) \o <<x>> \o SubSeq(r, before + 1, Len(r))

\* sorted(t.items(), key=lambda x: -x[1]): a stable sort, so each item goes
\* behind every earlier item whose count is at least its own.
RECURSIVE sorted_by_count(_)
sorted_by_count(items) ==
  IF items = <<>> THEN <<>>
  ELSE LET x == items[Len(items)]
           r == sorted_by_count(SubSeq(items, 1, Len(items) - 1))
           before == Cardinality({p \in 1..Len(r) : r[p].v >= x.v})
       IN  SubSeq(r, 1, before) \o <<x>> \o SubSeq(r, before + 1, Len(r))

\* The scan compares against ngram[-1] where the code reads ngram[-2].
RECURSIVE bigram_scan_last_word(_, _)
bigram_scan_last_word(token_tuples, start_word) ==
  IF token_tuples = <<>> THEN Returned(<<>>)
  ELSE LET ngram == split(Head(token_tuples).k)
       IN  IF start_word = ngram[Len(ngram)]
           THEN Returned(ngram[Len(ngram)])
           ELSE bigram_scan_last_word(Tail(token_tuples), start_word)

\* The for loop: ngram[-2] raises IndexError on a one-word key; the first
\* n-gram whose second-to-last word is start_word gives next_word.
RECURSIVE bigram_scan(_, _)
bigram_scan(token_tuples, start_word) ==
  IF token_tuples = <<>> THEN Returned(<<>>)
  ELSE LET ngram == split(Head(token_tuples).k)
       IN  IF Len(ngram) < 2 THEN Raised("IndexError")
           ELSE IF start_word = ngram[Len(ngram) - 1]
                THEN Returned(ngram[Len(ngram)])
                ELSE bigram_scan(Tail(token_tuples), start_word)

bigram_predict(t, s) ==
  LET words == split(s)
      start_word == words[Len(words)]
  IN  bigram_scan(sorted_by_count(t), start_word)

PredictKeys == {<<"a">>, <<"a", " ", "b">>, <<"a", " ", "a">>, <<"b", " ", "a", " ", "b">>}
PredictPrefixes == {<<>>, <<"a">>, <<"b">>, <<"b", " ", "a">>, <<"a", " ", "b">>}

InitPredict ==
  /\ pc = "call"
  /\ args \in [t : TokenSets(PredictKeys), s : PredictPrefixes]
  /\ ret = NoRet

CallBigramPredict ==
  /\ pc = "call"
  /\ ret' = bigram_predict(args.t, args.s)
  /\ pc' = "bigram_predict"
  /\ UNCHANGED args

NextPredict == CallBigramPredict

SpecPredict == InitPredict /\ [][NextPredict]_vars

\* The scan order of a token table, and its entries, read off the table:
\* entry p is scanned before entry q when its count is larger, or equal with
\* p inserted first.
ScannedBefore(t, p, q) == t[p].v > t[q].v \/ (t[p].v = t[q].v /\ p < q)
LastWord(s) == Field(s, FieldCount(s))
IsMatch(t, p, s) ==
  /\ FieldCount(t[p].k) >= 2
  /\ Field(t[p].k, FieldCount(t[p].k) - 1) = LastWord(s)
FirstMatches(t, s) ==
  {p \in 1..Len(t) : IsMatch(t, p, s) /\ \A q \in 1..Len(t) : IsMatch(t, q, s) => ~ScannedBefore(t, q, p)}
\* A one-word key that the scan reaches: none of the matches comes before it.
ReachedOneWordKeys(t, s) ==
  {p \in 1..Len(t) : FieldCount(t[p].k) < 2
                     /\ \A q \in 1..Len(t) : IsMatch(t, q, s) => ~ScannedBefore(t, q, p)}
PredictedAsClaimed(t, s, r) ==
  /\ r.ok
  /\ \A p \in FirstMatches(t, s) : r.val = LastWord(t[p].k)
  /\ FirstMatches(t, s) = {} => r.val = <<>>

\* C9: for every token table and every prefix text, bigram_predict returns the
\* last word of the first entry, scanning by count descending with ties in
\* insertion order, whose second-to-last word is the last word of the prefix,
\* and the empty string when no entry matches.
C9_PredictFirstMatch ==
  pc = "bigram_predict" => PredictedAsClaimed(args.t, args.s, ret)

\* C9 as amended: the same, for every token table in which the scan reaches no
\* one-word key before its first match (in particular every table of bigrams
\* or larger n-grams).
C9_PredictFirstMatchOfNGrams ==
  (pc = "bigram_predict" /\ ReachedOneWordKeys(args.t, args.s) = {}) =>
     PredictedAsClaimed(args.t, args.s, ret)

\* C9, witness: a tie between two matching entries was decided by insertion
\* order, in a table that also holds a one-word key behind the match.
C9_Witness ==
  /\ pc = "bigram_predict"
  /\ ReachedOneWordKeys(args.t, args.s) = {}
  /\ \E p, q \in 1..Len(args.t) :
       /\ p < q
       /\ IsMatch(args.t, p, args.s) /\ IsMatch(args.t, q, args.s)
       /\ args.t[p].v = args.t[q].v
       /\ LastWord(args.t[p].k) # LastWord(args.t[q].k)
       /\ p \in FirstMatches(args.t, args.s)
  /\ \E p \in 1..Len(args.t) : FieldCount(args.t[p].k) < 2

\* C10: bigram_predict never fails: for every token set, an empty one and one
\* with single-word keys included, and every prefix text it returns a
\* predicted word or the empty string.
C10_PredictNeverFails ==
  pc = "bigram_predict" =>
    /\ ret.ok
    /\ ret.val = <<>> \/ \E p \in 1..Len(args.t) : ret.val = LastWord(args.t[p].k)

\* C10 as amended: bigram_predict returns a predicted word or the empty string
\* exactly when the scan reaches no one-word key before its first match (so
\* for every token set of bigrams or larger, the empty one included);
\* otherwise it raises IndexError.
C10_PredictFailsOnlyOnOneWordKey ==
  pc = "bigram_predict" =>
    IF ReachedOneWordKeys(args.t, args.s) = {}
    THEN /\ ret.ok
         /\ ret.val = <<>> \/ \E p \in 1..Len(args.t) : ret.val = LastWord(args.t[p].k)
    ELSE ~ret.ok /\ ret.err = "IndexError"

\* C10, witness: a table of bigrams or larger with no match gave the empty
\* string.
C10_Witness ==
  /\ pc = "bigram_predict"
  /\ Len(args.t) >= 2
  /\ \A p \in 1..Len(args.t) : FieldCount(args.t[p].k) >= 2
  /\ FirstMatches(args.t, args.s) = {}
  /\ ret.ok /\ ret.val = <<>>

(***************************************************************************)
(* Characters and the regular expressions of the module.                   *)
(*                                                                         *)
(* A character class is [neg, set]: the characters of set, or all others   *)
(* when neg.  A pattern is a sequence of items [cls, min, many]: one       *)
(* character of cls (min 1, not many), cls* (min 0, many) or cls+ (min 1,  *)
(* many).  An item takes the longest run it can and never gives back; in   *)
(* every pattern of the module an item with many is followed by an item    *)
(* whose class is disjoint from its own (or by nothing), so that this is   *)
(* what the backtracking matcher of re finds.                              *)
(***************************************************************************)
LowerSeq == <<"a", "b", "c", "d", "e", "f", "g", "h", "i", "j", "k", "l", "m", "n", "o", "p", "q", "r", "s", "t", "u", "v", "w", "x", "y", "z">>
UpperSeq == <<"A", "B", "C", "D", "E", "F", "G", "H", "I", "J", "K", "L", "M", "N", "O", "P", "Q", "R", "S", "T", "U", "V", "W", "X", "Y", "Z">>
DigitSeq == <<"0", "1", "2", "3", "4", "5", "6", "7", "8", "9">>
SeqRange(q) == {q[p] : p \in 1..Len(q)}

Class(S) == [neg |-> FALSE, set |-> S]
NotClass(S) == [neg |-> TRUE, set |-> S]
InClass(c, cls) == (c \in cls.set) # cls.neg

Lower == Class(SeqRange(LowerSeq))
Upper == Class(SeqRange(UpperSeq))
Letter == Class(SeqRange(LowerSeq) \cup SeqRange(UpperSeq))
Digit == Class(SeqRange(DigitSeq))
\* \s (blank, tab, line feed, carriage return, form feed)
Space == Class({" ", "\t", "\n", "\r", "\f"})
\* \W
NonWord == NotClass(SeqRange(LowerSeq) \cup SeqRange(UpperSeq) \cup SeqRange(DigitSeq) \cup {"_"})
\* [^A-Za-z0-9]
NonAlnum == NotClass(SeqRange(LowerSeq) \cup SeqRange(UpperSeq) \cup SeqRange(DigitSeq))
\* .
Dot == NotClass({"\n"})

One(cls) == [cls |-> cls, min |-> 1, many |-> FALSE]
Star(cls) == [cls |-> cls, min |-> 0, many |-> TRUE]
Plus(cls) == [cls |-> cls, min |-> 1, many |-> TRUE]
Ch(c) == One(Class({c}))
\* A literal text as a pattern.
Lit(text) == [p \in 1..Len(text) |-> Ch(text[p])]

\* str.upper() and str.lower() on the characters A-Z, a-z.
IndexIn(q, c) == CHOOSE p \in 1..Len(q) : q[p] = c
UpperChar(c) == IF c \in SeqRange(LowerSeq) THEN UpperSeq[IndexIn(LowerSeq, c)] ELSE c
LowerChar(c) == IF c \in SeqRange(UpperSeq) THEN LowerSeq[IndexIn(UpperSeq, c)] ELSE c
upper(s) == [p \in 1..Len(s) |-> UpperChar(s[p])]
lower(s) == [p \in 1..Len(s) |-> LowerChar(s[p])]

\* The length of the longest run of characters of cls in s from position p.
RECURSIVE RunLen(_, _, _)
RunLen(cls, s, p) ==
  IF p > Len(s) \/ ~InClass(s[p], cls) THEN 0 ELSE 1 + RunLen(cls, s, p + 1)

\* The position after the match of items[k..] in s at position p; 0: no match.
RECURSIVE MatchItems(_, _, _, _)
MatchItems(items, k, s, p) ==
  IF k > Len(items) THEN p
  ELSE LET run == IF items[k].many THEN RunLen(items[k].cls, s, p)
                  ELSE IF p <= Len(s) /\ InClass(s[p], items[k].cls) THEN 1 ELSE 0
       IN  IF run < items[k].min THEN 0 ELSE MatchItems(items, k + 1, s, p + run)

\* (items)+ : the items as often as they match in a row.
RECURSIVE MatchRepeated(_, _, _)
MatchRepeated(items, s, p) ==
  LET e == MatchItems(items, 1, s, p)
  IN  IF e = 0 THEN 0
      ELSE IF e = p THEN e
      ELSE LET f == MatchRepeated(items, s, e) IN IF f = 0 THEN e ELSE f

\* A pattern: its items, ^ (anchored), (...)+ around the items (repeat) and a
\* lookbehind (?<=[behind]) in front of them (look).
Pattern(items) ==
  [items |-> items, anchored |-> FALSE, repeat |-> FALSE, look |-> FALSE, behind |-> Dot]
Anchored(items) == [Pattern(items) EXCEPT !.anchored = TRUE]
Repeated(items) == [Pattern(items) EXCEPT !.repeat = TRUE]
Behind(cls, items) == [Pattern(items) EXCEPT !.look = TRUE, !.behind = cls]

\* The position after the match of pat in s at position p; 0: no match.
MatchAt(pat, s, p) ==
  IF pat.anchored /\ p # 1 THEN 0
  ELSE IF pat.look /\ (p = 1 \/ ~InClass(s[p - 1], pat.behind)) THEN 0
  ELSE IF pat.repeat THEN MatchRepeated(pat.items, s, p)
  ELSE MatchItems(pat.items, 1, s, p)

\* The replacement of a match m: a fixed text, m.upper() or m.lower().
Const(text) == [kind |-> "const", text |-> text]
ToUpper == [kind |-> "upper", text |-> <<>>]
ToLower == [kind |-> "lower", text |-> <<>>]
Replacement(repl, m) ==
  IF repl.kind = "upper" THEN upper(m)
  ELSE IF repl.kind = "lower" THEN lower(m)
  ELSE repl.text

\* re.sub(pat, repl, s) from position p on: the leftmost match is replaced and
\* the scan goes on behind it, so matches never overlap.  No pattern of the
\* module matches the empty text.
RECURSIVE SubFrom(_, _, _, _)
SubFrom(pat, repl, s, p) ==
  IF p > Len(s) THEN <<>>
  ELSE LET e == MatchAt(pat, s, p)
       IN  IF e > p
           THEN Replacement(repl, SubSeq(s, p, e - 1)) \o SubFrom(pat, repl, s, e)
           ELSE <<s[p]>> \o SubFrom(pat, repl, s, p + 1)

re_sub(pat, repl, s) == SubFrom(pat, repl, s, 1)

(***************************************************************************)
(* The normalisation stages of tokenize.                                   *)
(***************************************************************************)
\* The substitution passes of expand, in the order of the code.
expand_rules ==
  <<
    [pat |-> Pattern(<<One(Class({"I", "i"}))>> \o Lit(<<"t", "'", "s">>)),
     repl |-> Const(<<"i", "t", " ", "i", "s">>)],
    [pat |-> Pattern(Lit(<<"'", "v", "e">>)),
     repl |-> Const(<<" ", "h", "a", "v", "e">>)],
    [pat |-> Pattern(Lit(<<"n", "'", "t">>)),
     repl |-> Const(<<" ", "n", "o", "t">>)],
    [pat |-> Pattern(Lit(<<"'", "l", "l">>)),
     repl |-> Const(<<" ", "w", "i", "l", "l">>)],
    [pat |-> Pattern(Lit(<<"'", "m">>)),
     repl |-> Const(<<" ", "a", "m">>)],
    [pat |-> Pattern(Lit(<<"'", "r", "e">>)),
     repl |-> Const(<<" ", "a", "r", "e">>)],
    [pat |-> Pattern(Lit(<<"'", "t", "i", "s">>)),
     repl |-> Const(<<"i", "t", " ", "i", "s">>)],
    [pat |-> Pattern(Lit(<<"'", "t", "w", "a", "s">>)),
     repl |-> Const(<<"i", "t", " ", "w", "a", "s">>)],
    [pat |-> Pattern(Lit(<<"l", "e", "t", "'", "s">>)),
     repl |-> Const(<<"l", "e", "t", " ", "u", "s">>)],
    [pat |-> Pattern(Lit(<<"s", "h", "a", "n", "'", "t">>)),
     repl |-> Const(<<"s", "h", "a", "l", "l", " ", "n", "o", "t">>)],
    [pat |-> Pattern(Lit(<<"G", "'", "d", "a", "y">>)),
     repl |-> Const(<<"G", "o", "o", "d", " ", "d", "a", "y">>)],
    [pat |-> Pattern(Lit(<<"w", "h", "o", "'", "s">>)),
     repl |-> Const(<<"w", "h", "o", " ", "i", "s">>)],
    [pat |-> Pattern(Lit(<<"w", "h", "e", "r", "e", "'", "s">>)),
     repl |-> Const(<<"w", "h", "e", "r", "e", " ", "i", "s">>)],
    [pat |-> Pattern(Lit(<<"w", "h", "a", "t", "'", "s">>)),
     repl |-> Const(<<"w", "h", "a", "t", " ", "i", "s">>)],
    [pat |-> Pattern(Lit(<<"w", "h", "y", "'", "s">>)),
     repl |-> Const(<<"w", "h", "y", " ", "i", "s">>)],
    [pat |-> Pattern(Lit(<<"t", "h", "a", "t", "'", "s">>)),
     repl |-> Const(<<"t", "h", "a", "t", " ", "i", "s">>)],
    [pat |-> Pattern(Lit(<<"t", "h", "e", "r", "e", "'", "s">>)),
     repl |-> Const(<<"t", "h", "e", "r", "e", " ", "i", "s">>)],
    [pat |-> Pattern(Lit(<<"s", "o", "m", "e", "o", "n", "e", "'", "s">>)),
     repl |-> Const(<<"s", "o", "m", "e", "o", "n", "e", " ", "i", "s">>)],
    [pat |-> Pattern(Lit(<<"s", "o", "m", "e", "b", "o", "d", "y", "'", "s">>)),
     repl |-> Const(<<"s", "o", "m", "e", "b", "o", "d", "y", " ", "i", "s">>)],
    [pat |-> Pattern(Lit(<<"s", "o", "m", "e", "t", "h", "i", "n", "g", "'", "s">>)),
     repl |-> Const(<<"s", "o", "m", "e", "t", "h", "i", "n", "g", " ", "i", "s">>)],
    [pat |-> Pattern(Lit(<<"h", "e", "'", "s">>)),
     repl |-> Const(<<"h", "e", " ", "i", "s">>)],
    [pat |-> Pattern(Lit(<<"o", "'", "c", "l", "o", "c", "k">>)),
     repl |-> Const(<<"o", "f", " ", "t", "h", "e", " ", "c", "l", "o", "c", "k">>)],
    [pat |-> Pattern(Lit(<<"a", "i", "n", "'", "t">>)),
     repl |-> Const(<<"a", "m", " ", "n", "o", "t">>)]
  >>

\* s = re.sub(...) for each rule in turn, on the result of the rule before.
\* No rule matches in an empty text, which therefore stays empty.
RECURSIVE apply_rules(_, _)
apply_rules(rules, s) ==
  IF rules = <<>> THEN s
  ELSE LET r == re_sub(Head(rules).pat, Head(rules).repl, s)
       IN  IF Len(r) = 0 THEN r ELSE apply_rules(Tail(rules), r)

expand(s) == apply_rules(expand_rules, s)

standardize_abbreviations(s) ==
  apply_rules(
    << [pat |-> Behind(Upper, <<Ch(".")>>), repl |-> Const(<<>>)],
       [pat |-> Behind(Upper, <<Ch("-")>>), repl |-> Const(<<>>)],
       [pat |-> Behind(Lower, <<Ch("-")>>), repl |-> Const(<<>>)],
       [pat |-> Pattern(<<Star(Upper), Star(Lower), Plus(Digit)>>), repl |-> ToUpper] >>,
    s)

Sign == Class({"-", "+"})

remove_numbers(s) ==
  apply_rules(
    << [pat |-> Repeated(<<One(Space), Plus(Digit), One(Space)>>), repl |-> Const(<<" ">>)],
       [pat |-> Anchored(<<Plus(Digit), One(Space)>>), repl |-> Const(<<" ">>)],
       [pat |-> Pattern(<<One(Space), Star(Sign), Plus(Digit), One(Space)>>),
        repl |-> Const(<<" ">>)],
       [pat |-> Pattern(<<One(Space), Star(Sign), Plus(Digit), Ch("."), Plus(Digit),
                          One(NonWord)>>),
        repl |-> Const(<<" ">>)] >>,
    s)

lowercase(s) ==
  apply_rules(
    << [pat |-> Pattern(<<One(Upper), Plus(Lower)>>), repl |-> ToLower],
       [pat |-> Anchored(<<One(Upper), One(Space)>>), repl |-> ToLower] >>,
    s)

uppercase_i(s) ==
  apply_rules(
    << [pat |-> Anchored(<<Ch("i"), Plus(Space)>>), repl |-> ToUpper],
       [pat |-> Pattern(<<Plus(Space), Ch("i"), Plus(Space)>>), repl |-> ToUpper] >>,
    s)

remove_punctuation(s) ==
  re_sub(Pattern(<<Plus(NonAlnum)>>), Const(<<" ">>), s)

\* The six stages that tokenize always runs, in its order.
normalize(s) ==
  remove_punctuation(uppercase_i(lowercase(remove_numbers(
    standardize_abbreviations(expand(s))))))

(***************************************************************************)
(* stem                                                                    *)
(***************************************************************************)
\* The alternatives of exceptions_ing (compiled with re.X: the white space
\* of the pattern is no part of it).
exceptions_ing ==
  <<
    <<One(Letter)>> \o Lit(<<"i", "n", "g">>),
    <<One(Letter), One(Dot)>> \o Lit(<<"i", "n", "g">>),
    <<One(Class({"S", "s"}))>> \o Lit(<<"o", "m", "e", "t", "h", "i", "n", "g">>),
    <<One(Class({"N", "n"}))>> \o Lit(<<"o", "t", "h", "i", "n", "g">>),
    <<One(Class({"D", "d"}))>> \o Lit(<<"u", "r", "i", "n", "g">>),
    <<One(Class({"E", "e"}))>> \o Lit(<<"v", "e", "n", "i", "n", "g">>),
    <<One(Class({"M", "m"}))>> \o Lit(<<"o", "r", "n", "i", "n", "g">>),
    <<One(Class({"S", "s"}))>> \o Lit(<<"t", "r", "i", "n", "g">>),
    <<One(Class({"C", "c"}))>> \o Lit(<<"e", "i", "l", "i", "n", "g">>),
    <<One(Class({"S", "s"}))>> \o Lit(<<"t", "e", "r", "l", "i", "n", "g">>),
    <<One(Class({"C", "c"}))>> \o Lit(<<"l", "i", "n", "g">>),
    <<One(Class({"G", "g"}))>> \o Lit(<<"o", "s", "l", "i", "n", "g">>),
    <<One(Class({"I", "i"}))>> \o Lit(<<"c", "i", "n", "g">>),
    <<One(Class({"S", "s"}))>> \o Lit(<<"h", "i", "l", "l", "i", "n", "g">>),
    <<One(Class({"S", "s"}))>> \o Lit(<<"t", "i", "n", "g">>),
    <<One(Class({"V", "v"}))>> \o Lit(<<"i", "k", "i", "n", "g">>),
    <<One(Class({"F", "f"}))>> \o Lit(<<"i", "l", "i", "n", "g">>),
    <<One(Class({"C", "c"}))>> \o Lit(<<"a", "r", "l", "i", "n", "g">>)
  >>

\* The pattern compiled without re.X: the line breaks and the indentation
\* are then part of the alternatives that follow them, [Ss]omething,
\* [Ss]tring and [Ii]cing, which no longer match a word.
matches_exception_not_verbose(word) ==
  \E a \in 1..Len(exceptions_ing) \ {3, 8, 13} :
    MatchItems(exceptions_ing[a], 1, word, 1) # 0

\* exceptions_ing.match(word): some alternative matches at the start of word.
matches_exception(word) ==
  \E a \in 1..Len(exceptions_ing) : MatchItems(exceptions_ing[a], 1, word, 1) # 0

\* The suffix alternatives of the stemming pattern, in its order.
stem_suffixes ==
  <<<<"i", "e", "s">>,
    <<"e", "s">>,
    <<"s">>,
    <<"e", "d">>,
    <<"i", "n", "g">>,
    <<"a", "t", "i", "v", "e">>,
    <<"i", "v", "e">>,
    <<"i", "o", "u", "s">>,
    <<"o", "u", "s", "l", "y">>,
    <<"a", "l", "l", "y">>,
    <<"l", "y">>,
    <<"m", "e", "n", "t">>>>

\* $ : the end of the text, or just before a line break that ends it.
AtEnd(s, p) == p = Len(s) + 1 \/ (p = Len(s) /\ s[p] = "\n")

\* The first alternative of the suffix group that matches s from position p
\* up to $, as its index; 0: none.
RECURSIVE first_suffix_at(_, _, _)
first_suffix_at(s, p, a) ==
  IF a > Len(stem_suffixes) THEN 0
  ELSE LET e == MatchItems(Lit(stem_suffixes[a]), 1, s, p)
       IN  IF e # 0 /\ AtEnd(s, e) THEN a ELSE first_suffix_at(s, p, a + 1)

\* ^(.*?)(ies|...|ment)?$ : the prefix grows one character at a time; at
\* each length the alternatives are tried in order, then the empty suffix.
\* The result is the prefix of the first match, [ok |-> FALSE] when the
\* pattern does not match (findall returns no match).
RECURSIVE stem_prefix(_, _)
stem_prefix(word, n) ==
  IF first_suffix_at(word, n + 1, 1) # 0 \/ AtEnd(word, n + 1)
  THEN Returned(SubSeq(word, 1, n))
  ELSE IF n >= Len(word) \/ ~InClass(word[n + 1], Dot) THEN Raised("IndexError")
  ELSE stem_prefix(word, n + 1)

\* ^(.*)(...)?$ : a greedy prefix takes the whole word.
stem_greedy(word) == Returned(word)

stem(word) ==
  IF matches_exception(word) THEN Returned(word) ELSE stem_prefix(word, 0)

(***************************************************************************)
(* Specification of the stemmer: a word is put together from at most       *)
(* MaxPieces pieces, the suffixes of the pattern and a few stems, and      *)
(* stem is called on it.                                                   *)
(***************************************************************************)
RECURSIVE Concat(_)
Concat(pieces) == IF pieces = <<>> THEN <<>> ELSE Head(pieces) \o Concat(Tail(pieces))

StemPieces == SeqRange(stem_suffixes) \cup {<<"r">>, <<"v", "a", "r">>, <<"t", "h">>}
StemWords == {Concat(ps) : ps \in SeqsUpTo(StemPieces, MaxPieces)}

\* The words that the exceptions are about: the listed nouns, with either case
\* of the first letter, and a letter or a letter and one more character
\* followed by "ing".
ListedExceptions ==
  { <<"s", "o", "m", "e", "t", "h", "i", "n", "g">>,
    <<"n", "o", "t", "h", "i", "n", "g">>,
    <<"d", "u", "r", "i", "n", "g">>,
    <<"e", "v", "e", "n", "i", "n", "g">>,
    <<"m", "o", "r", "n", "i", "n", "g">>,
    <<"s", "t", "r", "i", "n", "g">>,
    <<"c", "e", "i", "l", "i", "n", "g">>,
    <<"s", "t", "e", "r", "l", "i", "n", "g">>,
    <<"c", "l", "i", "n", "g">>,
    <<"g", "o", "s", "l", "i", "n", "g">>,
    <<"i", "c", "i", "n", "g">>,
    <<"s", "h", "i", "l", "l", "i", "n", "g">>,
    <<"s", "t", "i", "n", "g">>,
    <<"v", "i", "k", "i", "n", "g">>,
    <<"f", "i", "l", "i", "n", "g">>,
    <<"c", "a", "r", "l", "i", "n", "g">> }
Capitalized(word) == <<UpperChar(word[1])>> \o Tail(word)
ShortFirst == {"s", "K", "r"}
ShortSecond == {"t", "i", "Y", "1", "-"}
ShortIngWords ==
  {<<a, "i", "n", "g">> : a \in ShortFirst}
    \cup {<<a, b, "i", "n", "g">> : a \in ShortFirst, b \in ShortSecond}
ExceptionWords ==
  ListedExceptions \cup {Capitalized(w) : w \in ListedExceptions} \cup ShortIngWords

InitStem ==
  /\ pc = "call"
  /\ args \in [word : StemWords \cup ExceptionWords]
  /\ ret = NoRet

CallStem ==
  /\ pc = "call"
  /\ ret' = stem(args.word)
  /\ pc' = "stem"
  /\ UNCHANGED args

NextStem == CallStem

SpecStem == InitStem /\ [][NextStem]_vars

EndsWith(w, suf) == Len(w) >= Len(suf) /\ SubSeq(w, Len(w) - Len(suf) + 1, Len(w)) = suf
\* The listed suffixes (by their place in the list) that the word ends with.
SuffixesOf(w) == {a \in 1..Len(stem_suffixes) : EndsWith(w, stem_suffixes[a])}
FirstListed(w) == CHOOSE a \in SuffixesOf(w) : \A b \in SuffixesOf(w) : a <= b
Longest(w) ==
  CHOOSE a \in SuffixesOf(w) :
    \A b \in SuffixesOf(w) : Len(stem_suffixes[a]) >= Len(stem_suffixes[b])

\* C5: for every word that does not match the exception pattern, stem strips
\* exactly the first suffix, in the listed order ies, es, s, ed, ing, ative,
\* ive, ious, ously, ally, ly, ment, that the word ends with, only that one,
\* and returns the word unchanged when it ends with none of them.
C5_StemStripsFirstListed ==
  (pc = "stem" /\ ~matches_exception(args.word)) =>
    /\ ret.ok
    /\ IF SuffixesOf(args.word) = {}
       THEN ret.val = args.word
       ELSE ret.val \o stem_suffixes[FirstListed(args.word)] = args.word

\* C5 as amended: for every word of letters that does not match the exception
\* pattern, stem strips exactly the longest of the listed suffixes that the
\* word ends with, only that one, and returns the word unchanged when it ends
\* with none of them.
C5_StemStripsLongest ==
  (pc = "stem" /\ ~matches_exception(args.word)) =>
    /\ ret.ok
    /\ IF SuffixesOf(args.word) = {}
       THEN ret.val = args.word
       ELSE ret.val \o stem_suffixes[Longest(args.word)] = args.word

\* C5, witness: stem was called on a word, no exception, whose longest listed suffix is not
\* the first listed one it ends with, and whose stem ends with a suffix again.
C5_Witness ==
  /\ pc = "stem"
  /\ ~matches_exception(args.word)
  /\ SuffixesOf(args.word) # {}
  /\ FirstListed(args.word) # Longest(args.word)
  /\ ret.ok
  /\ SuffixesOf(ret.val) # {}

(***************************************************************************)
(* Specification of the normalisation: a text of lower-case words, one     *)
(* space between two words, is normalised, and the result once more.       *)
(***************************************************************************)
NormWords == {<<"i">>, <<"a">>, <<"i", "t">>}
NormTexts == {join(ws) : ws \in SeqsUpTo(NormWords, MaxNormWords)}

InitNorm ==
  /\ pc = "call"
  /\ args \in [s : NormTexts]
  /\ ret = NoRet

CallNormalize ==
  /\ pc = "call"
  /\ ret' = Returned(normalize(args.s))
  /\ pc' = "normalize"
  /\ UNCHANGED args

\* The result of the first run is the argument of the second.
CallNormalizeAgain ==
  /\ pc = "normalize"
  /\ args' = [s |-> ret.val]
  /\ ret' = Returned(normalize(ret.val))
  /\ pc' = "normalize_again"

NextNorm == CallNormalize \/ CallNormalizeAgain

SpecNorm == InitNorm /\ [][NextNorm]_vars

\* C6: on a text of lower-case words separated by single spaces the pipeline
\* expand, standardize_abbreviations, remove_numbers, lowercase, uppercase_i,
\* remove_punctuation is idempotent: normalize(normalize(t)) = normalize(t).
C6_NormalizeIdempotent ==
  pc = "normalize_again" => ret.val = args.s

(***************************************************************************)
(* remove_stopwords, stem_string, tokenize                                 *)
(***************************************************************************)
\* The stopword list of remove_stopwords.
stopwords ==
  <<
    <<"a">>, <<"a", "b", "o", "u", "t">>, <<"a", "b", "o", "v", "e">>, <<"a", "b", "o", "v", "e">>,
    <<"a", "c", "r", "o", "s", "s">>, <<"a", "f", "t", "e", "r">>,
    <<"a", "f", "t", "e", "r", "w", "a", "r", "d", "s">>, <<"a", "g", "a", "i", "n">>,
    <<"a", "g", "a", "i", "n", "s", "t">>, <<"a", "l", "l">>, <<"a", "l", "m", "o", "s", "t">>,
    <<"a", "l", "o", "n", "e">>, <<"a", "l", "o", "n", "g">>,
    <<"a", "l", "r", "e", "a", "d", "y">>, <<"a", "l", "s", "o">>,
    <<"a", "l", "t", "h", "o", "u", "g", "h">>, <<"a", "l", "w", "a", "y", "s">>, <<"a", "m">>,
    <<"a", "m", "o", "n", "g">>, <<"a", "m", "o", "n", "g", "s", "t">>,
    <<"a", "m", "o", "u", "n", "g", "s", "t">>, <<"a", "m", "o", "u", "n", "t">>, <<"a", "n">>,
    <<"a", "n", "d">>, <<"a", "n", "o", "t", "h", "e", "r">>, <<"a", "n", "y">>,
    <<"a", "n", "y", "h", "o", "w">>, <<"a", "n", "y", "o", "n", "e">>,
    <<"a", "n", "y", "t", "h", "i", "n", "g">>, <<"a", "n", "y", "w", "a", "y">>,
    <<"a", "n", "y", "w", "h", "e", "r", "e">>, <<"a", "r", "e">>,
    <<"a", "r", "o", "u", "n", "d">>, <<"a", "s">>, <<"a", "t">>, <<"b", "a", "c", "k">>,
    <<"b", "e">>, <<"b", "e", "c", "a", "m", "e">>, <<"b", "e", "c", "a", "u", "s", "e">>,
    <<"b", "e", "c", "o", "m", "e">>, <<"b", "e", "c", "o", "m", "e", "s">>,
    <<"b", "e", "c", "o", "m", "i", "n", "g">>, <<"b", "e", "e", "n">>,
    <<"b", "e", "f", "o", "r", "e">>, <<"b", "e", "f", "o", "r", "e", "h", "a", "n", "d">>,
    <<"b", "e", "h", "i", "n", "d">>, <<"b", "e", "i", "n", "g">>, <<"b", "e", "l", "o", "w">>,
    <<"b", "e", "s", "i", "d", "e">>, <<"b", "e", "s", "i", "d", "e", "s">>,
    <<"b", "e", "t", "w", "e", "e", "n">>, <<"b", "e", "y", "o", "n", "d">>,
    <<"b", "i", "l", "l">>, <<"b", "o", "t", "h">>, <<"b", "o", "t", "t", "o", "m">>,
    <<"b", "u", "t">>, <<"b", "y">>, <<"c", "a", "l", "l">>, <<"c", "a", "n">>,
    <<"c", "a", "n", "n", "o", "t">>, <<"c", "a", "n", "t">>, <<"c", "o">>, <<"c", "o", "n">>,
    <<"c", "o", "u", "l", "d">>, <<"c", "o", "u", "l", "d", "n", "t">>, <<"c", "r", "y">>,
    <<"d", "e">>, <<"d", "e", "s", "c", "r", "i", "b", "e">>, <<"d", "e", "t", "a", "i", "l">>,
    <<"d", "o">>, <<"d", "o", "n", "e">>, <<"d", "o", "w", "n">>, <<"d", "u", "e">>,
    <<"d", "u", "r", "i", "n", "g">>, <<"e", "a", "c", "h">>, <<"e", "g">>,
    <<"e", "i", "g", "h", "t">>, <<"e", "i", "t", "h", "e", "r">>,
    <<"e", "l", "e", "v", "e", "n">>, <<"e", "l", "s", "e">>,
    <<"e", "l", "s", "e", "w", "h", "e", "r", "e">>, <<"e", "m", "p", "t", "y">>,
    <<"e", "n", "o", "u", "g", "h">>, <<"e", "t", "c">>, <<"e", "v", "e", "n">>,
    <<"e", "v", "e", "r">>, <<"e", "v", "e", "r", "y">>,
    <<"e", "v", "e", "r", "y", "o", "n", "e">>,
    <<"e", "v", "e", "r", "y", "t", "h", "i", "n", "g">>,
    <<"e", "v", "e", "r", "y", "w", "h", "e", "r", "e">>, <<"e", "x", "c", "e", "p", "t">>,
    <<"f", "e", "w">>, <<"f", "i", "f", "t", "e", "e", "n">>, <<"f", "i", "f", "y">>,
    <<"f", "i", "l", "l">>, <<"f", "i", "n", "d">>, <<"f", "i", "r", "e">>,
    <<"f", "i", "r", "s", "t">>, <<"f", "i", "v", "e">>, <<"f", "o", "r">>,
    <<"f", "o", "r", "m", "e", "r">>, <<"f", "o", "r", "m", "e", "r", "l", "y">>,
    <<"f", "o", "r", "t", "y">>, <<"f", "o", "u", "n", "d">>, <<"f", "o", "u", "r">>,
    <<"f", "r", "o", "m">>, <<"f", "r", "o", "n", "t">>, <<"f", "u", "l", "l">>,
    <<"f", "u", "r", "t", "h", "e", "r">>, <<"g", "e", "t">>, <<"g", "i", "v", "e">>, <<"g", "o">>,
    <<"h", "a", "d">>, <<"h", "a", "s">>, <<"h", "a", "s", "n", "t">>, <<"h", "a", "v", "e">>,
    <<"h", "e">>, <<"h", "e", "n", "c", "e">>, <<"h", "e", "r">>, <<"h", "e", "r", "e">>,
    <<"h", "e", "r", "e", "a", "f", "t", "e", "r">>, <<"h", "e", "r", "e", "b", "y">>,
    <<"h", "e", "r", "e", "i", "n">>, <<"h", "e", "r", "e", "u", "p", "o", "n">>,
    <<"h", "e", "r", "s">>, <<"h", "e", "r", "s", "e", "l", "f">>, <<"h", "i", "m">>,
    <<"h", "i", "m", "s", "e", "l", "f">>, <<"h", "i", "s">>, <<"h", "o", "w">>,
    <<"h", "o", "w", "e", "v", "e", "r">>, <<"h", "u", "n", "d", "r", "e", "d">>, <<"i", "e">>,
    <<"i", "f">>, <<"i", "n">>, <<"i", "n", "c">>, <<"i", "n", "d", "e", "e", "d">>,
    <<"i", "n", "t", "e", "r", "e", "s", "t">>, <<"i", "n", "t", "o">>, <<"i", "s">>, <<"i", "t">>,
    <<"i", "t", "s">>, <<"i", "t", "s", "e", "l", "f">>, <<"k", "e", "e", "p">>,
    <<"l", "a", "s", "t">>, <<"l", "a", "t", "t", "e", "r">>,
    <<"l", "a", "t", "t", "e", "r", "l", "y">>, <<"l", "e", "a", "s", "t">>,
    <<"l", "e", "s", "s">>, <<"l", "t", "d">>, <<"m", "a", "d", "e">>, <<"m", "a", "n", "y">>,
    <<"m", "a", "y">>, <<"m", "e">>, <<"m", "e", "a", "n", "w", "h", "i", "l", "e">>,
    <<"m", "i", "g", "h", "t">>, <<"m", "i", "l", "l">>, <<"m", "i", "n", "e">>,
    <<"m", "o", "r", "e">>, <<"m", "o", "r", "e", "o", "v", "e", "r">>, <<"m", "o", "s", "t">>,
    <<"m", "o", "s", "t", "l", "y">>, <<"m", "o", "v", "e">>, <<"m", "u", "c", "h">>,
    <<"m", "u", "s", "t">>, <<"m", "y">>, <<"m", "y", "s", "e", "l", "f">>, <<"n", "a", "m", "e">>,
    <<"n", "a", "m", "e", "l", "y">>, <<"n", "e", "i", "t", "h", "e", "r">>,
    <<"n", "e", "v", "e", "r">>, <<"n", "e", "v", "e", "r", "t", "h", "e", "l", "e", "s", "s">>,
    <<"n", "e", "x", "t">>, <<"n", "i", "n", "e">>, <<"n", "o">>, <<"n", "o", "b", "o", "d", "y">>,
    <<"n", "o", "n", "e">>, <<"n", "o", "o", "n", "e">>, <<"n", "o", "r">>, <<"n", "o", "t">>,
    <<"n", "o", "t", "h", "i", "n", "g">>, <<"n", "o", "w">>,
    <<"n", "o", "w", "h", "e", "r", "e">>, <<"o", "f">>, <<"o", "f", "f">>,
    <<"o", "f", "t", "e", "n">>, <<"o", "n">>, <<"o", "n", "c", "e">>, <<"o", "n", "e">>,
    <<"o", "n", "l", "y">>, <<"o", "n", "t", "o">>, <<"o", "r">>, <<"o", "t", "h", "e", "r">>,
    <<"o", "t", "h", "e", "r", "s">>, <<"o", "t", "h", "e", "r", "w", "i", "s", "e">>,
    <<"o", "u", "r">>, <<"o", "u", "r", "s">>, <<"o", "u", "r", "s", "e", "l", "v", "e", "s">>,
    <<"o", "u", "t">>, <<"o", "v", "e", "r">>, <<"o", "w", "n">>, <<"p", "a", "r", "t">>,
    <<"p", "e", "r">>, <<"p", "e", "r", "h", "a", "p", "s">>, <<"p", "l", "e", "a", "s", "e">>,
    <<"p", "u", "t">>, <<"r", "a", "t", "h", "e", "r">>, <<"r", "e">>, <<"s", "a", "m", "e">>,
    <<"s", "e", "e">>, <<"s", "e", "e", "m">>, <<"s", "e", "e", "m", "e", "d">>,
    <<"s", "e", "e", "m", "i", "n", "g">>, <<"s", "e", "e", "m", "s">>,
    <<"s", "e", "r", "i", "o", "u", "s">>, <<"s", "e", "v", "e", "r", "a", "l">>,
    <<"s", "h", "e">>, <<"s", "h", "o", "u", "l", "d">>, <<"s", "h", "o", "w">>,
    <<"s", "i", "d", "e">>, <<"s", "i", "n", "c", "e">>, <<"s", "i", "n", "c", "e", "r", "e">>,
    <<"s", "i", "x">>, <<"s", "i", "x", "t", "y">>, <<"s", "o">>, <<"s", "o", "m", "e">>,
    <<"s", "o", "m", "e", "h", "o", "w">>, <<"s", "o", "m", "e", "o", "n", "e">>,
    <<"s", "o", "m", "e", "t", "h", "i", "n", "g">>, <<"s", "o", "m", "e", "t", "i", "m", "e">>,
    <<"s", "o", "m", "e", "t", "i", "m", "e", "s">>,
    <<"s", "o", "m", "e", "w", "h", "e", "r", "e">>, <<"s", "t", "i", "l", "l">>,
    <<"s", "u", "c", "h">>, <<"s", "y", "s", "t", "e", "m">>, <<"t", "a", "k", "e">>,
    <<"t", "e", "n">>, <<"t", "h", "a", "n">>, <<"t", "h", "a", "t">>, <<"t", "h", "e">>,
    <<"t", "h", "e", "i", "r">>, <<"t", "h", "e", "m">>,
    <<"t", "h", "e", "m", "s", "e", "l", "v", "e", "s">>, <<"t", "h", "e", "n">>,
    <<"t", "h", "e", "n", "c", "e">>, <<"t", "h", "e", "r", "e">>,
    <<"t", "h", "e", "r", "e", "a", "f", "t", "e", "r">>, <<"t", "h", "e", "r", "e", "b", "y">>,
    <<"t", "h", "e", "r", "e", "f", "o", "r", "e">>, <<"t", "h", "e", "r", "e", "i", "n">>,
    <<"t", "h", "e", "r", "e", "u", "p", "o", "n">>, <<"t", "h", "e", "s", "e">>,
    <<"t", "h", "e", "y">>, <<"t", "h", "i", "c", "k", "v">>, <<"t", "h", "i", "n">>,
    <<"t", "h", "i", "r", "d">>, <<"t", "h", "i", "s">>, <<"t", "h", "o", "s", "e">>,
    <<"t", "h", "o", "u", "g", "h">>, <<"t", "h", "r", "e", "e">>,
    <<"t", "h", "r", "o", "u", "g", "h">>, <<"t", "h", "r", "o", "u", "g", "h", "o", "u", "t">>,
    <<"t", "h", "r", "u">>, <<"t", "h", "u", "s">>, <<"t", "o">>,
    <<"t", "o", "g", "e", "t", "h", "e", "r">>, <<"t", "o", "o">>, <<"t", "o", "p">>,
    <<"t", "o", "w", "a", "r", "d">>, <<"t", "o", "w", "a", "r", "d", "s">>,
    <<"t", "w", "e", "l", "v", "e">>, <<"t", "w", "e", "n", "t", "y">>, <<"t", "w", "o">>,
    <<"u", "n">>, <<"u", "n", "d", "e", "r">>, <<"u", "n", "t", "i", "l">>, <<"u", "p">>,
    <<"u", "p", "o", "n">>, <<"u", "s">>, <<"v", "e", "r", "y">>, <<"v", "i", "a">>,
    <<"w", "a", "s">>, <<"w", "e">>, <<"w", "e", "l", "l">>, <<"w", "e", "r", "e">>,
    <<"w", "h", "a", "t">>, <<"w", "h", "a", "t", "e", "v", "e", "r">>, <<"w", "h", "e", "n">>,
    <<"w", "h", "e", "n", "c", "e">>, <<"w", "h", "e", "n", "e", "v", "e", "r">>,
    <<"w", "h", "e", "r", "e">>, <<"w", "h", "e", "r", "e", "a", "f", "t", "e", "r">>,
    <<"w", "h", "e", "r", "e", "a", "s">>, <<"w", "h", "e", "r", "e", "b", "y">>,
    <<"w", "h", "e", "r", "e", "i", "n">>, <<"w", "h", "e", "r", "e", "u", "p", "o", "n">>,
    <<"w", "h", "e", "r", "e", "v", "e", "r">>, <<"w", "h", "e", "t", "h", "e", "r">>,
    <<"w", "h", "i", "c", "h">>, <<"w", "h", "i", "l", "e">>,
    <<"w", "h", "i", "t", "h", "e", "r">>, <<"w", "h", "o">>,
    <<"w", "h", "o", "e", "v", "e", "r">>, <<"w", "h", "o", "l", "e">>, <<"w", "h", "o", "m">>,
    <<"w", "h", "o", "s", "e">>, <<"w", "h", "y">>, <<"w", "i", "l", "l">>, <<"w", "i", "t", "h">>,
    <<"w", "i", "t", "h", "i", "n">>, <<"w", "i", "t", "h", "o", "u", "t">>,
    <<"w", "o", "u", "l", "d">>, <<"y", "e", "t">>, <<"y", "o", "u">>, <<"y", "o", "u", "r">>,
    <<"y", "o", "u", "r", "s">>, <<"y", "o", "u", "r", "s", "e", "l", "f">>,
    <<"y", "o", "u", "r", "s", "e", "l", "v", "e", "s">>, <<"s">>, <<"t">>, <<"d">>
  >>

\* filter(lambda x: x not in stopwords, ...)
RECURSIVE filter_stopwords(_)
filter_stopwords(words) ==
  IF words = <<>> THEN <<>>
  ELSE IF Head(words) \in SeqRange(stopwords) THEN filter_stopwords(Tail(words))
  ELSE <<Head(words)>> \o filter_stopwords(Tail(words))

remove_stopwords(s) == join(filter_stopwords(split(s)))

\* " ".join([stem(w) for w in words]); an exception of stem ends the call.
stem_string(s) ==
  LET words == split(s)
      stemmed_words == [p \in 1..Len(words) |-> stem(words[p])]
  IN  IF \E p \in 1..Len(words) : ~stemmed_words[p].ok
      THEN stemmed_words[CHOOSE p \in 1..Len(words) :
                           /\ ~stemmed_words[p].ok
                           /\ \A q \in 1..(p - 1) : stemmed_words[q].ok]
      ELSE Returned(join([p \in 1..Len(words) |-> stemmed_words[p].val]))

\* A counting loop that stores 1 for every n-gram, seen before or not.
RECURSIVE count_ngrams_no_increment(_, _)
count_ngrams_no_increment(ngrams, toks) ==
  IF ngrams = <<>> THEN toks
  ELSE count_ngrams_no_increment(Tail(ngrams), DictSet(toks, Head(ngrams), 1))

\* for w in ngrams: tokens[w] += 1 if w in tokens else tokens[w] = 1
RECURSIVE count_ngrams(_, _)
count_ngrams(ngrams, toks) ==
  IF ngrams = <<>> THEN toks
  ELSE LET w == Head(ngrams)
       IN  count_ngrams(Tail(ngrams),
                        DictSet(toks, w, IF DictHas(toks, w) THEN DictGet(toks, w) + 1 ELSE 1))

tokenize(s, n, removing_stopwords, stemming) ==
  LET normalized == normalize(s)
      unstopped == IF removing_stopwords THEN remove_stopwords(normalized) ELSE normalized
      stemmed == IF stemming THEN stem_string(unstopped) ELSE Returned(unstopped)
  IN  IF ~stemmed.ok THEN stemmed
      ELSE Returned(count_ngrams(n_gram(n, stemmed.val).val, <<>>))

(***************************************************************************)
(* Specification of the tokenizer: a raw text of at most MaxTokWords       *)
(* words, with capitals, a contraction, punctuation, digits, a stopword    *)
(* and an inflected word, is tokenized for some n and some flags.          *)
(***************************************************************************)
TokWords ==
  { <<"T", "h", "e">>, <<"c", "a", "t", "s", ",">>, <<"i">>, <<"v", "-", "2">>,
    <<"i", "t", "'", "s">>, <<"1", "2">> }
TokTexts == {join(ws) : ws \in SeqsUpTo(TokWords, MaxTokWords)}
TokNs == {1, 2}

InitTokenize ==
  /\ pc = "call"
  /\ args \in [s : TokTexts, n : TokNs, removing_stopwords : BOOLEAN, stemming : BOOLEAN]
  /\ ret = NoRet

CallTokenize ==
  /\ pc = "call"
  /\ ret' = tokenize(args.s, args.n, args.removing_stopwords, args.stemming)
  /\ pc' = "tokenize"
  /\ UNCHANGED args

NextTokenize == CallTokenize

SpecTokenize == InitTokenize /\ [][NextTokenize]_vars

\* The list of n-grams that the claim counts: n_gram(n, s), s the text after
\* the six normalisation stages and the stages that the flags ask for.
TokenizedNGrams ==
  LET s0 == normalize(args.s)
      s1 == IF args.removing_stopwords THEN remove_stopwords(s0) ELSE s0
      s2 == IF args.stemming THEN stem_string(s1).val ELSE s1
  IN  n_gram(args.n, s2).val

\* C11: for every text, every n >= 1 and every setting of the flags, tokenize
\* returns a mapping whose keys are exactly the distinct strings of
\* n_gram(n, s), s the text after the normalisation stages (and the optional
\* stopword and stemming stages), each key mapped to the number of times it
\* occurs in that list; every count is >= 1 and the counts sum to the number
\* of n-grams.
C11_TokenizeCountsNGrams ==
  pc = "tokenize" =>
    LET ngrams == TokenizedNGrams
    IN  /\ ret.ok
        /\ IsDict(ret.val)
        /\ DictKeys(ret.val) = SeqRange(ngrams)
        /\ \A p \in 1..Len(ret.val) :
             /\ ret.val[p].v = PyCount(ngrams, ret.val[p].k)
             /\ ret.val[p].v >= 1
        /\ SumValues(ret.val) = Len(ngrams)

\* C11, witness: tokenize, removing stopwords and stemming, has counted a
\* bigram that occurs twice next to one that occurs once.
C11_Witness ==
  /\ pc = "tokenize"
  /\ args.n = 2 /\ args.removing_stopwords /\ args.stemming
  /\ ret.ok
  /\ \E p, q \in 1..Len(ret.val) : ret.val[p].v = 2 /\ ret.val[q].v = 1

RECURSIVE docs_with_term(_, _)
docs_with_term(term, docs) ==
  IF docs = <<>> THEN <<>>
  ELSE IF \E p \in 1..Len(Head(docs)) : Head(docs)[p] = term
       THEN <<Head(docs)>> \o docs_with_term(term, Tail(docs))
       ELSE docs_with_term(term, Tail(docs))

\* float(x)/y: Python raises ZeroDivisionError on a zero divisor.  The
\* quotient is kept as the pair of its terms.
float_div(x, y) ==
  IF y = 0 THEN Raised("ZeroDivisionError") ELSE Returned([num |-> x, den |-> y])

\* An idf with a smoothed divisor, 1 + the number of documents with the term.
idf_smooth_divisor(term, docs) ==
  float_div(Len(docs), 1 + Len(docs_with_term(term, docs)))

\* float(len(docs))/(len([d for d in docs if term in d]))
idf_quotient(term, docs) ==
  float_div(Len(docs), Len(docs_with_term(term, docs)))

\* tf*idf, with tf = count/len and idf = log(1.0 + quotient); the value is
\* kept as the terms of the product, [tf, log1p].
tfidf(term, doc, docs) ==
  LET tf == float_div(PyCount(doc, term), Len(doc))
      quotient == idf_quotient(term, docs)
  IN  IF ~tf.ok THEN tf
      ELSE IF ~quotient.ok THEN quotient
      ELSE Returned([tf |-> tf.val, log1p |-> quotient.val])

(***************************************************************************)
(* Specification of tfidf: a term, a document of at most MaxDocLen words   *)
(* and a corpus of at most MaxDocs such documents.                         *)
(***************************************************************************)
TfidfTerms == {"a", "c"}
TfidfDocs == SeqsUpTo(TfidfTerms, MaxDocLen)

InitTfidf ==
  /\ pc = "call"
  /\ args \in [term : TfidfTerms, doc : TfidfDocs, docs : SeqsUpTo(TfidfDocs, MaxDocs)]
  /\ ret = NoRet

CallTfidf ==
  /\ pc = "call"
  /\ ret' = tfidf(args.term, args.doc, args.docs)
  /\ pc' = "tfidf"
  /\ UNCHANGED args

NextTfidf == CallTfidf

SpecTfidf == InitTfidf /\ [][NextTfidf]_vars

\* Some document of the corpus contains the term.
TermInCorpus ==
  \E i \in 1..Len(args.docs) : args.term \in SeqRange(args.docs[i])

\* C13: tfidf(term, doc, docs) ends in a raised error, never in a returned
\* value, whenever doc is empty or no document of docs contains term, and it
\* returns a value for every non-empty doc when some document of docs
\* contains term.
C13_TfidfFailsExplicitly ==
  pc = "tfidf" =>
    /\ (args.doc = <<>> \/ ~TermInCorpus) => ret = Raised("ZeroDivisionError")
    /\ (args.doc # <<>> /\ TermInCorpus) =>
         /\ ret.ok
         /\ ret.val.tf.den > 0
         /\ ret.val.log1p.den > 0

\* C13, witness: tfidf has raised for a non-empty document whose term is in
\* no document of a non-empty corpus.
C13_Witness ==
  /\ pc = "tfidf"
  /\ args.doc # <<>> /\ args.docs # <<>> /\ ~TermInCorpus
  /\ ret = Raised("ZeroDivisionError")

(***************************************************************************)
(* Specification of two stages on their own: remove_numbers and expand     *)
(* are called on a text that is either a run of at most MaxRun unsigned    *)
(* integers between two words, or at most MaxContractionWords words, some  *)
(* of them the contractions "shan't" and "ain't".                          *)
(***************************************************************************)
RunIntegers == {<<"1">>, <<"2", "3">>}
RunLeft == <<"A">>
RunRight == <<"t", "e", "s", "t", ".">>
NumberTexts ==
  {join(<<RunLeft>> \o run \o <<RunRight>>) : run \in SeqsUpTo(RunIntegers, MaxRun) \ {<<>>}}

Shant == <<"s", "h", "a", "n", "'", "t">>
Aint == <<"a", "i", "n", "'", "t">>
ContractionWords == {<<"I">>, <<"g", "o">>, Shant, Aint}
ContractionTexts == {join(ws) : ws \in SeqsUpTo(ContractionWords, MaxContractionWords)}

InitStages ==
  /\ pc = "call"
  /\ args \in [s : NumberTexts \cup ContractionTexts]
  /\ ret = NoRet

CallRemoveNumbers ==
  /\ pc = "call"
  /\ ret' = Returned(remove_numbers(args.s))
  /\ pc' = "remove_numbers"
  /\ UNCHANGED args

CallExpand ==
  /\ pc = "call"
  /\ ret' = Returned(expand(args.s))
  /\ pc' = "expand"
  /\ UNCHANGED args

NextStages == CallRemoveNumbers \/ CallExpand

SpecStages == InitStages /\ [][NextStages]_vars

\* An unsigned integer token: a non-empty word of digits.
IsInteger(w) == w # <<>> /\ \A p \in 1..Len(w) : w[p] \in SeqRange(DigitSeq)
IsWord(w) == w # <<>> /\ ~IsInteger(w)

\* The words of a text that is a run of k >= 1 integers between two words.
IsIntegerRun(ws) ==
  /\ Len(ws) >= 3
  /\ IsWord(ws[1]) /\ IsWord(ws[Len(ws)])
  /\ \A p \in 2..(Len(ws) - 1) : IsInteger(ws[p])

\* C14: for every text in which a run of k >= 1 unsigned integers, separated
\* from each other and from the surrounding words by single spaces, lies
\* between two non-numeric words, remove_numbers deletes every integer of the
\* run and leaves exactly one space between the two words, for every k.
C14_RemoveNumbersCollapsesRun ==
  (pc = "remove_numbers" /\ IsIntegerRun(split(args.s))) =>
    LET ws == split(args.s)
    IN  ret = Returned(join(<<ws[1], ws[Len(ws)]>>))

\* What the specific rules make of a word.
RECURSIVE ExpandedWords(_)
ExpandedWords(ws) ==
  IF ws = <<>> THEN <<>>
  ELSE <<IF Head(ws) = Shant THEN <<"s", "h", "a", "l", "l", " ", "n", "o", "t">>
         ELSE IF Head(ws) = Aint THEN <<"a", "m", " ", "n", "o", "t">>
         ELSE Head(ws)>> \o ExpandedWords(Tail(ws))

\* C15: the specific contraction rules of expand take effect in the pass
\* order: for every input with the word "shan't" the output has "shall not"
\* in its place, and for every input with "ain't" the output has "am not" in
\* its place; no earlier pass rewrites the text so that these rules can no
\* longer match.
C15_SpecificRulesTakeEffect ==
  (pc = "expand" /\ args.s \in ContractionTexts) =>
    ret = Returned(join(ExpandedWords(split(args.s))))

====
